---------------------------- MODULE Spec2Model ----------------------------
(***************************************************************************)
(* Fabricator.ai shape-inference pipelines: the text pipeline              *)
(* (text_processor.py) and the sketch pipeline (sketch_processor.py).      *)
(*                                                                         *)
(* Conventions.                                                            *)
(*  - A Python str is a TLA+ string; its i-th character is SubSeq(s,i,i).  *)
(*  - A float (a length in mm in the text pipeline, in pixels in the       *)
(*    sketch pipeline) is an integer count of hundredths: Num(25) is 25.0. *)
(*    A ratio (circularity, area ratio) is a count of ten-thousandths.     *)
(*  - A confidence is an integer count of hundredths of a percent:         *)
(*    Pct(85) is 85.0.                                                     *)
(*  - area, perimeter and the hexagon's height are exact symbolic reals    *)
(*    [k, c, n]: k = "rat" is c*n, "pi" is c*n*pi, "sqrt3" is c*n*sqrt(3), *)
(*    "sqrt" is c*sqrt(n).  An area counts 1/10 of a squared hundredth     *)
(*    (so that 0.5*b*h and 0.8*w*h are integers); a perimeter counts       *)
(*    hundredths.                                                          *)
(*  - A Python dict is a TLA+ function on the set of its keys.             *)
(*  - A raised exception is the value [error |-> <message>].               *)
(***************************************************************************)
EXTENDS Integers, Sequences, FiniteSets, TLC

VARIABLES
    input_method,     \* "text" or "sketch": which pipeline the request uses
    text_input,       \* process_text's text_input
    uploaded_file,    \* process_sketch's uploaded_file: [decodable, contours]
    expected_shape,   \* the expected-shape hint of the request
    precision,        \* the precision level of the request
    pc,               \* "ready" before the call, "done" after it
    detected_shapes,  \* the hypothesis list _detect_shapes built (sketch)
    result,           \* the returned shape record, or the raised exception
    call,             \* a direct call of one method: [fn, args, returned]
    threads,          \* concurrent calls on shared instances: per thread its
                      \* arguments, position, local variables and outcome
    clock,            \* the wall clock datetime.now() reads
    instance,         \* the attributes __init__ gives the two processors
    session_state,    \* st.session_state of the app: the keys set so far
    files             \* the generated_dxf directory: path -> document saved

vars == <<input_method, text_input, uploaded_file, expected_shape, precision,
          pc, detected_shapes, result, call, threads, clock, instance,
          session_state, files>>

Num(n) == 100 * n
Pct(n) == 100 * n

\* F applied to the value of e, which is computed once.
Let(e, F(_)) == CHOOSE r \in {F(x) : x \in {e}} : TRUE

Max(a, b) == IF a >= b THEN a ELSE b
Min(a, b) == IF a <= b THEN a ELSE b
Abs(a) == IF a < 0 THEN 0 - a ELSE a

\* Symbolic reals.
Rat(n) == [k |-> "rat", c |-> 1, n |-> n]
PiTimes(n) == [k |-> "pi", c |-> 1, n |-> n]
Sqrt3Times(n) == [k |-> "sqrt3", c |-> 1, n |-> n]
\* c * sqrt(n)
RootTimes(c, n) == [k |-> "sqrt", c |-> c, n |-> n]

(***************************************************************************)
(* Characters and the regular-expression primitives the patterns use.      *)
(***************************************************************************)
Ch(s, i) == SubSeq(s, i, i)
Digits == {"0", "1", "2", "3", "4", "5", "6", "7", "8", "9"}
UpperChars == "ABCDEFGHIJKLMNOPQRSTUVWXYZ"
LowerChars == "abcdefghijklmnopqrstuvwxyz"
Letters == {Ch(UpperChars, i) : i \in 1..26} \cup {Ch(LowerChars, i) : i \in 1..26}
Spaces == {" ", "\t", "\n", "\r", "\f"}
IsDigit(c) == c \in Digits
IsAlpha(c) == c \in Letters
IsSpace(c) == c \in Spaces
\* \w
IsWordChar(c) == IsDigit(c) \/ IsAlpha(c) \/ c = "_"
\* \b at position i: between character i-1 and character i of s.
WordBoundary(s, i) ==
    (i > 1 /\ i - 1 <= Len(s) /\ IsWordChar(Ch(s, i - 1)))
        # (i >= 1 /\ i <= Len(s) /\ IsWordChar(Ch(s, i)))
\* s has the literal w at position i.
At(s, i, w) == i >= 1 /\ i + Len(w) - 1 <= Len(s) /\ SubSeq(s, i, i + Len(w) - 1) = w
\* Python's "w in s".
Contains(s, w) == \E i \in 1..(Len(s) + 1) : At(s, i, w)
\* The position after the longest run of characters of class C that starts at i.
RECURSIVE RunEnd(_, _, _)
RunEnd(s, i, C) == IF i <= Len(s) /\ Ch(s, i) \in C THEN RunEnd(s, i + 1, C) ELSE i
\* The position after a greedy \d+(?:\.\d+)? that starts at i; i when none does.
NumberEnd(s, i) ==
    LET j == RunEnd(s, i, Digits)
        f == RunEnd(s, j + 1, Digits)
    IN IF j > i /\ At(s, j, ".") /\ f > j + 1 THEN f ELSE j

\* re.search(r'\b(a1|a2|...)\b', s), alts the set of alternatives.
SearchWord(s, alts) ==
    \E i \in 1..Len(s) : \E a \in alts :
        WordBoundary(s, i) /\ At(s, i, a) /\ WordBoundary(s, i + Len(a))

\* str.lower()
LowerChar(c) ==
    IF \E i \in 1..26 : Ch(UpperChars, i) = c
    THEN Ch(LowerChars, CHOOSE i \in 1..26 : Ch(UpperChars, i) = c)
    ELSE c
RECURSIVE LowerFrom(_, _)
LowerFrom(s, i) == IF i > Len(s) THEN "" ELSE LowerChar(Ch(s, i)) \o LowerFrom(s, i + 1)
lower(str) == Let(str, LAMBDA s : LowerFrom(s, 1))

\* re.sub(r'\s+', ' ', s)
RECURSIVE CollapseFrom(_, _)
CollapseFrom(s, i) ==
    IF i > Len(s) THEN ""
    ELSE IF IsSpace(Ch(s, i)) THEN " " \o CollapseFrom(s, RunEnd(s, i, Spaces))
    ELSE Ch(s, i) \o CollapseFrom(s, i + 1)
Collapse(str) == Let(str, LAMBDA s : CollapseFrom(s, 1))

\* re.sub(r'\b(short|long)\b', long, s): the alternatives are tried in order.
RECURSIVE SubWordFrom(_, _, _, _)
SubWordFrom(s, i, short, long) ==
    IF i > Len(s) THEN ""
    ELSE IF WordBoundary(s, i) /\ At(s, i, short) /\ WordBoundary(s, i + Len(short))
    THEN long \o SubWordFrom(s, i + Len(short), short, long)
    ELSE IF WordBoundary(s, i) /\ At(s, i, long) /\ WordBoundary(s, i + Len(long))
    THEN long \o SubWordFrom(s, i + Len(long), short, long)
    ELSE Ch(s, i) \o SubWordFrom(s, i + 1, short, long)
SubWord(str, short, long) == Let(str, LAMBDA s : SubWordFrom(s, 1, short, long))

\* str.strip()
RECURSIVE StripEnd(_, _)
StripEnd(s, j) == IF j > 0 /\ IsSpace(Ch(s, j)) THEN StripEnd(s, j - 1) ELSE j
strip(str) == Let(str, LAMBDA s : SubSeq(s, RunEnd(s, 1, Spaces), StripEnd(s, Len(s))))

\* float(s) for the strings the patterns capture: digits with an optional
\* fraction parse (to hundredths); a string holding anything else is a ValueError.
IsFloatLiteral(s) == Len(s) > 0 /\ NumberEnd(s, 1) = Len(s) + 1
DigitVal(c) == CHOOSE d \in 0..9 : Ch("0123456789", d + 1) = c
\* The integer the digits s[1..j] write.
RECURSIVE IntOf(_, _)
IntOf(s, j) == IF j = 0 THEN 0 ELSE 10 * IntOf(s, j - 1) + DigitVal(Ch(s, j))
float(str) ==
    Let(str, LAMBDA s :
        Let(RunEnd(s, 1, Digits), LAMBDA j :
            Num(IntOf(s, j - 1)) + IntOf(SubSeq(SubSeq(s, j + 1, Len(s)) \o "00", 1, 2), 2)))


(***************************************************************************)
(* TextProcessor (text_processor.py).                                      *)
(***************************************************************************)
\* self.shape_patterns, in insertion order: the alternatives of each \b(...)\b.
ShapeNames == <<"circle", "rectangle", "triangle", "hexagon", "polygon">>
shape_patterns ==
    [circle |-> {"circle", "round", "circular", "disk", "ring"},
     rectangle |-> {"rectangle", "rect", "square", "box", "rectangular"},
     triangle |-> {"triangle", "triangular", "pyramid"},
     hexagon |-> {"hexagon", "hex", "hexagonal"},
     polygon |-> {"polygon", "poly", "shape", "figure"}]

\* self.units: the factor of each unit token, in tenths (25.4 is 254).
units ==
    [mm |-> 10, millimeter |-> 10, millimeters |-> 10,
     cm |-> 100, centimeter |-> 100, centimeters |-> 100,
     m |-> 10000, meter |-> 10000, meters |-> 10000,
     in |-> 254, inch |-> 254, inches |-> 254,
     ft |-> 3048, foot |-> 3048, feet |-> 3048]

\* self.dimension_patterns, in insertion order; each pattern is
\* \b(<name>|<letter>)\s*[=:]\s*(\d+(?:\.\d+)?)\s*([a-zA-Z]+)?\b
DimNames == <<"radius", "diameter", "width", "height", "length", "side">>
DimLetter(name) == SubSeq(name, 1, 1)

\* _normalize_text
normalize_text(text) ==
    LET n0 == lower(text)
        n1 == Collapse(n0)
        n2 == SubWord(n1, "r", "radius")
        n3 == SubWord(n2, "d", "diameter")
        n4 == SubWord(n3, "w", "width")
        n5 == SubWord(n4, "h", "height")
        n6 == SubWord(n5, "l", "length")
        n7 == SubWord(n6, "s", "side")
    IN strip(n7)

\* _detect_shape_type; FirstShape scans shape_patterns from index i.
RECURSIVE FirstShape(_, _)
FirstShape(text, i) ==
    IF i > Len(ShapeNames) THEN "circle"
    ELSE IF SearchWord(text, shape_patterns[ShapeNames[i]]) THEN ShapeNames[i]
    ELSE FirstShape(text, i + 1)
\* _detect_shape_type returning the hint as the selector spells it.
detect_shape_type_verbatim(text, hint) ==
    IF hint # "Auto-detect" THEN hint ELSE FirstShape(text, 1)
detect_shape_type(text, hint) ==
    IF hint # "Auto-detect" THEN lower(hint) ELSE FirstShape(text, 1)

\* _convert_to_mm looking the token up as written, without unit.lower().
convert_to_mm_exact(value, unit) ==
    IF unit \in DOMAIN units THEN (value * units[unit]) \div 10 ELSE value

\* _convert_to_mm
convert_to_mm(value, unit) ==
    Let(lower(unit), LAMBDA unit_lower :
        IF unit_lower \in DOMAIN units
        THEN (value * units[unit_lower]) \div 10
        ELSE value)

NoMatch(i) == [ok |-> FALSE, groups |-> <<>>, end |-> i]

\* The tail \s*([a-zA-Z]+)?\b of a dimension pattern from position j: the
\* pairs <<k, l>> (unit group at k..l-1) at which it can end, of which the
\* regex takes the one with the most whitespace, then the most letters.
DimTails(s, j) ==
    {t \in (j..RunEnd(s, j, Spaces)) \X (j..(Len(s) + 1)) :
        /\ t[2] >= t[1]
        /\ t[2] <= RunEnd(s, t[1], Letters)
        /\ WordBoundary(s, t[2])}
BestTail(T) ==
    CHOOSE t \in T : \A u \in T : u[1] < t[1] \/ (u[1] = t[1] /\ u[2] <= t[2])
\* The number group n0..j-1 and the tail that follows it.
DimMatchTail(s, i, label, n0, j) ==
    Let(DimTails(s, j), LAMBDA T :
        IF T = {} THEN NoMatch(i)
        ELSE Let(BestTail(T), LAMBDA t :
                 [ok |-> TRUE,
                  groups |-> <<label, SubSeq(s, n0, j - 1), SubSeq(s, t[1], t[2] - 1)>>,
                  end |-> t[2]]))
\* The number group starts at n0: it ends after the greedy number or, giving
\* the fraction back, after its integer part.
DimMatchNumber(s, i, label, n0) ==
    Let(NumberEnd(s, n0), LAMBDA n1 :
        IF n1 = n0 THEN NoMatch(i)
        ELSE Let(DimMatchTail(s, i, label, n0, n1), LAMBDA m :
                 IF m.ok THEN m
                 ELSE Let(RunEnd(s, n0, Digits), LAMBDA nInt :
                          DimMatchTail(s, i, label, n0, nInt))))
\* One match attempt of a dimension pattern with its label `label` at
\* position i: [ok, groups, end]; groups is the tuple re.findall returns.
DimMatchLabel(s, i, label) ==
    IF ~(WordBoundary(s, i) /\ At(s, i, label)) THEN NoMatch(i)
    ELSE Let(RunEnd(s, i + Len(label), Spaces), LAMBDA q :
             IF ~(At(s, q, "=") \/ At(s, q, ":")) THEN NoMatch(i)
             ELSE Let(RunEnd(s, q + 1, Spaces), LAMBDA n0 :
                      DimMatchNumber(s, i, label, n0)))
DimMatchAt(s, i, name) ==
    Let(DimMatchLabel(s, i, name), LAMBDA m :
        IF m.ok THEN m ELSE DimMatchLabel(s, i, DimLetter(name)))

\* re.findall(self.dimension_patterns[name], s), scanning from position i.
RECURSIVE DimFindAll(_, _, _)
DimFindAll(s, i, name) ==
    IF i > Len(s) THEN <<>>
    ELSE Let(DimMatchAt(s, i, name), LAMBDA m :
             IF m.ok THEN <<m.groups>> \o DimFindAll(s, m.end, name)
             ELSE DimFindAll(s, i + 1, name))

\* re.findall(r'(\d+(?:\.\d+)?)\s*(?:by|x|<A-tilde><em-dash>)\s*(\d+(?:\.\d+)?)', s)
\* from i.  The third alternative starts with a capital A-tilde, which no
\* lower-cased text holds, so it never matches.
SizeMatchSecond(s, i, a, c) ==
    Let(NumberEnd(s, c), LAMBDA d :
        IF d > c
        THEN [ok |-> TRUE, groups |-> <<SubSeq(s, i, a - 1), SubSeq(s, c, d - 1)>>, end |-> d]
        ELSE NoMatch(i))
SizeMatchSep(s, i, a, b) ==
    IF At(s, b, "by") THEN Let(RunEnd(s, b + 2, Spaces), LAMBDA c : SizeMatchSecond(s, i, a, c))
    ELSE IF At(s, b, "x") THEN Let(RunEnd(s, b + 1, Spaces), LAMBDA c : SizeMatchSecond(s, i, a, c))
    ELSE NoMatch(i)
SizeMatchAt(s, i) ==
    Let(NumberEnd(s, i), LAMBDA a :
        IF a = i THEN NoMatch(i)
        ELSE Let(RunEnd(s, a, Spaces), LAMBDA b : SizeMatchSep(s, i, a, b)))
RECURSIVE SizeFindAll(_, _)
SizeFindAll(s, i) ==
    IF i > Len(s) THEN <<>>
    ELSE Let(SizeMatchAt(s, i), LAMBDA m :
             IF m.ok THEN <<m.groups>> \o SizeFindAll(s, m.end)
             ELSE SizeFindAll(s, i + 1))

\* re.findall(r'(\d+(?:\.\d+)?)\s*(mm|cm|m|in|ft)', s) from i; the unit
\* alternatives are tried in order.
SimpleUnits == <<"mm", "cm", "m", "in", "ft">>
SimpleMatchUnit(s, i, a, b) ==
    Let({u \in 1..Len(SimpleUnits) : At(s, b, SimpleUnits[u])}, LAMBDA hit :
        IF hit = {} THEN NoMatch(i)
        ELSE Let(SimpleUnits[CHOOSE x \in hit : \A y \in hit : x <= y], LAMBDA unit :
                 [ok |-> TRUE, groups |-> <<SubSeq(s, i, a - 1), unit>>,
                  end |-> b + Len(unit)]))
SimpleMatchAt(s, i) ==
    Let(NumberEnd(s, i), LAMBDA a :
        IF a = i THEN NoMatch(i)
        ELSE Let(RunEnd(s, a, Spaces), LAMBDA b : SimpleMatchUnit(s, i, a, b)))
RECURSIVE SimpleFindAll(_, _)
SimpleFindAll(s, i) ==
    IF i > Len(s) THEN <<>>
    ELSE Let(SimpleMatchAt(s, i), LAMBDA m :
             IF m.ok THEN <<m.groups>> \o SimpleFindAll(s, m.end)
             ELSE SimpleFindAll(s, i + 1))

\* dimensions[key] = value
Put(d, key, value) == (key :> value) @@ d
EmptyDict == [x \in {} |-> 0]
ValueError == [error |-> "ValueError"]
IsError(x) == "error" \in DOMAIN x

\* The size rule assigning without the "not in dimensions" tests.
SizeStep_overwrite(text, val1, val2, dimensions) ==
    IF Contains(text, "circle") \/ Contains(text, "round")
    THEN Put(dimensions, "diameter", Max(val1, val2))
    ELSE Put(Put(dimensions, "width", val1), "height", val2)
\* The "for match in size_matches" loop of _handle_special_cases from match i.
SizeStep(text, val1, val2, dimensions) ==
    IF Contains(text, "circle") \/ Contains(text, "round")
    THEN IF "diameter" \notin DOMAIN dimensions
         THEN Put(dimensions, "diameter", Max(val1, val2))
         ELSE dimensions
    ELSE Let(IF "width" \notin DOMAIN dimensions
             THEN Put(dimensions, "width", val1)
             ELSE dimensions,
             LAMBDA d : IF "height" \notin DOMAIN d THEN Put(d, "height", val2) ELSE d)
RECURSIVE SizeLoop(_, _, _, _)
SizeLoop(text, matches, i, dimensions) ==
    IF i > Len(matches) THEN dimensions
    ELSE Let(SizeStep(text, float(matches[i][1]), float(matches[i][2]), dimensions),
             LAMBDA d : SizeLoop(text, matches, i + 1, d))

\* The "if simple_matches and not dimensions" block of _handle_special_cases.
SimpleStep(text, match, dimensions) ==
    Let(convert_to_mm(float(match[1]), match[2]), LAMBDA converted_value :
        IF Contains(text, "circle") \/ Contains(text, "round")
        THEN Put(dimensions, "radius", converted_value \div 2)
        ELSE Put(Put(dimensions, "width", converted_value), "height", converted_value))

\* _handle_special_cases without the "and not dimensions" test.
handle_special_cases_always(text, dimensions) ==
    Let(SizeFindAll(text, 1), LAMBDA size_matches :
        Let(SizeLoop(text, size_matches, 1, dimensions), LAMBDA dims :
            Let(SimpleFindAll(text, 1), LAMBDA simple_matches :
                IF simple_matches # <<>>
                THEN SimpleStep(text, simple_matches[1], dims)
                ELSE dims)))
\* _handle_special_cases
handle_special_cases(text, dimensions) ==
    Let(SizeFindAll(text, 1), LAMBDA size_matches :
        Let(SizeLoop(text, size_matches, 1, dimensions), LAMBDA dims :
            Let(SimpleFindAll(text, 1), LAMBDA simple_matches :
                IF simple_matches # <<>> /\ DOMAIN dims = {}
                THEN SimpleStep(text, simple_matches[1], dims)
                ELSE dims)))

\* The "for match in matches" loop of _extract_dimensions for one pattern:
\* value = float(match[0]) and unit = match[1] read the label and the number.
RECURSIVE MatchLoop(_, _, _, _)
MatchLoop(dim_name, matches, i, dimensions) ==
    IF i > Len(matches) THEN dimensions
    ELSE IF ~IsFloatLiteral(matches[i][1]) THEN ValueError
    ELSE Let(Put(dimensions, dim_name,
                 convert_to_mm(float(matches[i][1]),
                               IF Len(matches[i]) > 1 THEN matches[i][2] ELSE "mm")),
             LAMBDA d : MatchLoop(dim_name, matches, i + 1, d))
\* The "for dim_name, pattern" loop of _extract_dimensions from pattern i.
RECURSIVE PatternLoop(_, _, _)
PatternLoop(text, i, dimensions) ==
    IF i > Len(DimNames) THEN dimensions
    ELSE Let(DimFindAll(text, 1, DimNames[i]), LAMBDA matches :
             Let(MatchLoop(DimNames[i], matches, 1, dimensions), LAMBDA d :
                 IF IsError(d) THEN d ELSE PatternLoop(text, i + 1, d)))

\* _extract_dimensions
extract_dimensions(text) ==
    Let(PatternLoop(text, 1, EmptyDict), LAMBDA dimensions :
        IF IsError(dimensions) THEN dimensions
        ELSE handle_special_cases(text, dimensions))

\* dict.get(key, default)
Get(d, key, default) == IF key \in DOMAIN d THEN d[key] ELSE default

\* _get_vertex_count
get_vertex_count(shape_type) ==
    LET vertex_counts == [circle |-> 0, rectangle |-> 4, triangle |-> 3,
                          hexagon |-> 6, polygon |-> 8]
    IN Get(vertex_counts, shape_type, 4)

\* _construct_circle_data with the default radius 50.0 in place of 25.0.
construct_circle_data_radius50(dimensions) ==
    LET radius0 == Get(dimensions, "radius", Num(50))
        diameter0 == Get(dimensions, "diameter", radius0 * 2)
        radius == IF "diameter" \in DOMAIN dimensions THEN diameter0 \div 2 ELSE radius0
        diameter == IF "diameter" \in DOMAIN dimensions THEN diameter0
                    ELSE IF "radius" \in DOMAIN dimensions THEN radius * 2
                    ELSE diameter0
    IN [center |-> <<0, 0>>,
        radius |-> radius,
        diameter |-> diameter,
        area |-> PiTimes(10 * radius * radius),
        perimeter |-> PiTimes(diameter)]

\* _construct_circle_data without the "if 'diameter' in dimensions" branch: a
\* given radius is kept beside a given diameter.
construct_circle_data_keep_radius(dimensions) ==
    LET radius == Get(dimensions, "radius", Num(25))
        diameter == Get(dimensions, "diameter", radius * 2)
    IN [center |-> <<0, 0>>,
        radius |-> radius,
        diameter |-> diameter,
        area |-> PiTimes(10 * radius * radius),
        perimeter |-> PiTimes(diameter)]

\* _construct_circle_data
construct_circle_data(dimensions) ==
    LET radius0 == Get(dimensions, "radius", Num(25))
        diameter0 == Get(dimensions, "diameter", radius0 * 2)
        radius == IF "diameter" \in DOMAIN dimensions THEN diameter0 \div 2 ELSE radius0
        diameter == IF "diameter" \in DOMAIN dimensions THEN diameter0
                    ELSE IF "radius" \in DOMAIN dimensions THEN radius * 2
                    ELSE diameter0
    IN [center |-> <<0, 0>>,
        radius |-> radius,
        diameter |-> diameter,
        area |-> PiTimes(10 * radius * radius),
        perimeter |-> PiTimes(diameter)]

\* _construct_rectangle_data
construct_rectangle_data(dimensions) ==
    LET width0 == Get(dimensions, "width", Num(100))
        height0 == Get(dimensions, "height", Num(75))
        height == IF "width" \in DOMAIN dimensions /\ "height" \notin DOMAIN dimensions
                  THEN width0 ELSE height0
        width == IF ~("width" \in DOMAIN dimensions /\ "height" \notin DOMAIN dimensions)
                    /\ "height" \in DOMAIN dimensions /\ "width" \notin DOMAIN dimensions
                 THEN height0 ELSE width0
    IN [center |-> <<0, 0>>,
        width |-> width,
        height |-> height,
        area |-> Rat(10 * width * height),
        perimeter |-> Rat(2 * (width + height))]

\* _construct_triangle_data
construct_triangle_data(dimensions) ==
    LET base == Get(dimensions, "width", Get(dimensions, "length", Num(100)))
        height == Get(dimensions, "height", Num(75))
    IN [center |-> <<0, 0>>,
        width |-> base,
        height |-> height,
        area |-> Rat(5 * base * height),
        perimeter |-> RootTimes(3, base * base + height * height)]

\* _construct_hexagon_data
construct_hexagon_data(dimensions) ==
    LET side_length == Get(dimensions, "side", Num(50))
    IN [center |-> <<0, 0>>,
        side_length |-> side_length,
        width |-> 2 * side_length,
        height |-> Sqrt3Times(side_length),
        area |-> Sqrt3Times(15 * side_length * side_length),
        perimeter |-> Rat(6 * side_length)]

\* _construct_polygon_data
construct_polygon_data(dimensions) ==
    LET side_length == Get(dimensions, "side", Num(50))
        width == Get(dimensions, "width", Num(100))
        height == Get(dimensions, "height", Num(100))
    IN [center |-> <<0, 0>>,
        side_length |-> side_length,
        width |-> width,
        height |-> height,
        area |-> Rat(8 * width * height),
        perimeter |-> Rat(8 * side_length)]

\* _construct_shape_data without the shape_data.update(...) of the computed
\* area and perimeter: the keys shape_data already holds keep their values.
construct_shape_data_stale(shape_type, dimensions, text) ==
    LET shape_data == [type |-> shape_type,
                       confidence |-> Pct(85),
                       vertices |-> get_vertex_count(shape_type),
                       area |-> Rat(0),
                       perimeter |-> Rat(0)]
    IN IF shape_type = "circle" THEN shape_data @@ construct_circle_data(dimensions)
       ELSE IF shape_type = "rectangle" THEN shape_data @@ construct_rectangle_data(dimensions)
       ELSE IF shape_type = "triangle" THEN shape_data @@ construct_triangle_data(dimensions)
       ELSE IF shape_type = "hexagon" THEN shape_data @@ construct_hexagon_data(dimensions)
       ELSE shape_data @@ construct_polygon_data(dimensions)

\* _construct_shape_data; dict.update(d) is d @@ shape_data.
construct_shape_data(shape_type, dimensions, text) ==
    LET shape_data == [type |-> shape_type,
                       confidence |-> Pct(85),
                       vertices |-> get_vertex_count(shape_type),
                       area |-> Rat(0),
                       perimeter |-> Rat(0)]
    IN IF shape_type = "circle" THEN construct_circle_data(dimensions) @@ shape_data
       ELSE IF shape_type = "rectangle" THEN construct_rectangle_data(dimensions) @@ shape_data
       ELSE IF shape_type = "triangle" THEN construct_triangle_data(dimensions) @@ shape_data
       ELSE IF shape_type = "hexagon" THEN construct_hexagon_data(dimensions) @@ shape_data
       ELSE construct_polygon_data(dimensions) @@ shape_data

\* A variant of _add_metadata that stamps the clock into the source field too.
add_metadata_stamped(shape_data, text) ==
    [timestamp |-> clock, source |-> clock] @@ shape_data
\* _add_metadata; datetime.now() reads the wall clock.
add_metadata(shape_data, text) ==
    LET boost1 == IF Cardinality(DOMAIN shape_data) > 5 THEN 5 ELSE 0
        boost2 == IF \E unit \in {"mm", "cm", "m", "in", "ft"} : Contains(text, unit)
                  THEN 5 ELSE 0
        boost3 == IF \E shape \in {"circle", "rectangle", "triangle", "hexagon"} :
                         Contains(text, shape)
                  THEN 5 ELSE 0
        confidence_boost == boost1 + boost2 + boost3
    IN [timestamp |-> clock, source |-> "text_input"]
         @@ [shape_data EXCEPT !.confidence = Min(Pct(100), @ + Pct(confidence_boost))]

\* process_text: any exception is re-raised as "Text processing failed: ...".
process_text(text, hint) ==
    Let(normalize_text(text), LAMBDA normalized_text :
        Let(extract_dimensions(normalized_text), LAMBDA dimensions :
            IF IsError(dimensions)
            THEN [error |-> "Text processing failed"]
            ELSE Let(construct_shape_data(detect_shape_type(normalized_text, hint),
                                          dimensions, normalized_text),
                     LAMBDA shape_data : add_metadata(shape_data, normalized_text))))

(***************************************************************************)
(* SketchProcessor (sketch_processor.py).  OpenCV is outside the           *)
(* repository: a contour is the record of what OpenCV measures on it,      *)
(*   area (cv2.contourArea), perimeter (cv2.arcLength), approx (the number *)
(*   of vertices cv2.approxPolyDP leaves), x, y, w, h (cv2.boundingRect),  *)
(*   cx, cy, radius (cv2.minEnclosingCircle), in pixels, and               *)
(*   faults: the detectors whose OpenCV calls raise on this contour.       *)
(* An uploaded file is [decodable, contours]: whether cv2.imdecode returns *)
(* an image, and the contours cv2.findContours finds in the preprocessed   *)
(* image at the request's precision.                                       *)
(***************************************************************************)
\* np.pi, in ten-thousandths.
PiE4 == 31416

\* _detect_circle
detect_circle(approx, contour, p) ==
    LET area == contour.area
        perimeter == contour.perimeter
        circularity == (4 * PiE4 * area) \div (perimeter * perimeter)
        circle_threshold == 7000 + (p * 200)
    IN IF perimeter = 0 THEN <<>>
       ELSE IF circularity > circle_threshold
       THEN <<[type |-> "circle",
               center |-> <<Num(contour.cx), Num(contour.cy)>>,
               radius |-> Num(contour.radius),
               confidence |-> Min(Pct(100), circularity),
               vertices |-> approx,
               area |-> Rat(1000 * Num(area)),
               perimeter |-> Rat(Num(perimeter))]>>
       ELSE <<>>

\* area / rect_area if rect_area > 0 else 0
AreaRatio(contour) ==
    LET rect_area == contour.w * contour.h
    IN IF rect_area > 0 THEN (10000 * contour.area) \div rect_area ELSE 0
\* (float(x + w/2), float(y + h/2))
BoxCenter(contour) ==
    <<Num(contour.x) + (Num(contour.w) \div 2), Num(contour.y) + (Num(contour.h) \div 2)>>

\* _detect_rectangle
detect_rectangle(approx, contour, p) ==
    LET area_ratio == AreaRatio(contour)
        rect_threshold == 6000 + (p * 300)
    IN IF approx = 4 /\ area_ratio > rect_threshold
       THEN <<[type |-> "rectangle",
               center |-> BoxCenter(contour),
               width |-> Num(contour.w),
               height |-> Num(contour.h),
               confidence |-> Min(Pct(100), area_ratio),
               vertices |-> 4,
               area |-> Rat(1000 * Num(contour.area)),
               perimeter |-> Rat(Num(contour.perimeter))]>>
       ELSE <<>>

\* _detect_triangle with the confidence 1.0 - area_ratio - expected_ratio, the
\* abs(...) around the deviation dropped.
detect_triangle_signed(approx, contour, p) ==
    LET area_ratio == AreaRatio(contour)
        expected_ratio == 5000
        triangle_threshold == 3000 + (p * 400)
    IN IF approx = 3 /\ Abs(area_ratio - expected_ratio) < triangle_threshold
       THEN <<[type |-> "triangle",
               center |-> BoxCenter(contour),
               width |-> Num(contour.w),
               height |-> Num(contour.h),
               confidence |-> Min(Pct(100), 10000 - area_ratio - expected_ratio),
               vertices |-> 3,
               area |-> Rat(1000 * Num(contour.area)),
               perimeter |-> Rat(Num(contour.perimeter))]>>
       ELSE <<>>

\* _detect_triangle
detect_triangle(approx, contour, p) ==
    LET area_ratio == AreaRatio(contour)
        expected_ratio == 5000
        triangle_threshold == 3000 + (p * 400)
    IN IF approx = 3 /\ Abs(area_ratio - expected_ratio) < triangle_threshold
       THEN <<[type |-> "triangle",
               center |-> BoxCenter(contour),
               width |-> Num(contour.w),
               height |-> Num(contour.h),
               confidence |-> Min(Pct(100), 10000 - Abs(area_ratio - expected_ratio)),
               vertices |-> 3,
               area |-> Rat(1000 * Num(contour.area)),
               perimeter |-> Rat(Num(contour.perimeter))]>>
       ELSE <<>>

\* _detect_hexagon
detect_hexagon(approx, contour, p) ==
    LET area_ratio == AreaRatio(contour)
        expected_ratio == 8660
        hex_threshold == 2000 + (p * 300)
    IN IF approx = 6 /\ Abs(area_ratio - expected_ratio) < hex_threshold
       THEN <<[type |-> "hexagon",
               center |-> BoxCenter(contour),
               width |-> Num(contour.w),
               height |-> Num(contour.h),
               confidence |-> Min(Pct(100), 10000 - Abs(area_ratio - expected_ratio)),
               vertices |-> 6,
               area |-> Rat(1000 * Num(contour.area)),
               perimeter |-> Rat(Num(contour.perimeter))]>>
       ELSE <<>>

\* _detect_polygon
detect_polygon(approx, contour, p) ==
    LET area_ratio == AreaRatio(contour)
    IN IF approx > 6 /\ area_ratio > 3000
       THEN <<[type |-> "polygon",
               center |-> BoxCenter(contour),
               width |-> Num(contour.w),
               height |-> Num(contour.h),
               confidence |-> Min(Pct(100), area_ratio),
               vertices |-> approx,
               area |-> Rat(1000 * Num(contour.area)),
               perimeter |-> Rat(Num(contour.perimeter))]>>
       ELSE <<>>

\* self.shape_templates, in insertion order; a detector returns <<>> for None
\* and <<shape_data>> for a hypothesis.
DetectorNames == <<"circle", "rectangle", "triangle", "hexagon", "polygon">>
Detect(shape_name, approx, contour, p) ==
    IF shape_name = "circle" THEN detect_circle(approx, contour, p)
    ELSE IF shape_name = "rectangle" THEN detect_rectangle(approx, contour, p)
    ELSE IF shape_name = "triangle" THEN detect_triangle(approx, contour, p)
    ELSE IF shape_name = "hexagon" THEN detect_hexagon(approx, contour, p)
    ELSE detect_polygon(approx, contour, p)

\* The body of "for shape_name, detector_func in self.shape_templates.items()":
\* an exception of the detector is caught and the loop continues.
TryDetector(shape_name, contour, p) ==
    IF shape_name \in contour.faults THEN <<>>
    ELSE Let(Detect(shape_name, contour.approx, contour, p), LAMBDA shape_data :
             IF shape_data # <<>>
             THEN <<[contour |-> contour, approx_contour |-> contour.approx] @@ shape_data[1]>>
             ELSE <<>>)
\* The detector loop without the try: the first exception ends the contour.
RECURSIVE DetectorLoop_abort(_, _, _)
DetectorLoop_abort(contour, p, i) ==
    IF i > Len(DetectorNames) \/ DetectorNames[i] \in contour.faults THEN <<>>
    ELSE TryDetector(DetectorNames[i], contour, p) \o DetectorLoop_abort(contour, p, i + 1)
RECURSIVE DetectorLoop(_, _, _)
DetectorLoop(contour, p, i) ==
    IF i > Len(DetectorNames) THEN <<>>
    ELSE TryDetector(DetectorNames[i], contour, p) \o DetectorLoop(contour, p, i + 1)

\* valid_contours = [c for c in contours if cv2.contourArea(c) > min_area]
RECURSIVE ValidContours(_, _)
ValidContours(contours, min_area) ==
    IF contours = <<>> THEN <<>>
    ELSE (IF Head(contours).area > min_area THEN <<Head(contours)>> ELSE <<>>)
             \o ValidContours(Tail(contours), min_area)
RECURSIVE ContourLoop(_, _)
ContourLoop(valid_contours, p) ==
    IF valid_contours = <<>> THEN <<>>
    ELSE DetectorLoop(Head(valid_contours), p, 1) \o ContourLoop(Tail(valid_contours), p)

\* _detect_shapes, from the contours cv2.findContours returns.
detect_shapes(contours, p) ==
    Let(100 * p, LAMBDA min_area :
        Let(ValidContours(contours, min_area), LAMBDA valid_contours :
            ContourLoop(valid_contours, p)))

\* max(...) returning the last of the maximal hypotheses.
MaxByConfidence_last(shapes) ==
    shapes[CHOOSE a \in 1..Len(shapes) :
               /\ \A b \in 1..Len(shapes) : shapes[b].confidence <= shapes[a].confidence
               /\ \A b \in (a + 1)..Len(shapes) : shapes[b].confidence < shapes[a].confidence]
\* max(shapes, key=lambda x: x['confidence']): the first of the maximal ones.
MaxByConfidence(shapes) ==
    shapes[CHOOSE a \in 1..Len(shapes) :
               /\ \A b \in 1..Len(shapes) : shapes[b].confidence <= shapes[a].confidence
               /\ \A b \in 1..(a - 1) : shapes[b].confidence < shapes[a].confidence]
\* [s for s in shapes if s['type'] == t]
RECURSIVE OfType(_, _)
OfType(shapes, t) ==
    IF shapes = <<>> THEN <<>>
    ELSE (IF Head(shapes).type = t THEN <<Head(shapes)>> ELSE <<>>) \o OfType(Tail(shapes), t)

\* The fallback record with the text pipeline's default radius 25.0.
FallbackCircle_radius25 ==
    [type |-> "circle",
     center |-> <<0, 0>>,
     radius |-> Num(25),
     confidence |-> Pct(50),
     vertices |-> 0,
     area |-> Rat(1000 * Num(7854)),
     perimeter |-> Rat(Num(314))]
\* The record _select_best_shape returns when shapes is empty.
FallbackCircle ==
    [type |-> "circle",
     center |-> <<0, 0>>,
     radius |-> Num(50),
     confidence |-> Pct(50),
     vertices |-> 0,
     area |-> Rat(1000 * Num(7854)),
     perimeter |-> Rat(Num(314))]

\* _select_best_shape without the expected_shape branch.
select_best_shape_unhinted(shapes, hint) ==
    IF shapes = <<>> THEN FallbackCircle ELSE MaxByConfidence(shapes)

\* _select_best_shape
select_best_shape(shapes, hint) ==
    IF shapes = <<>> THEN FallbackCircle
    ELSE IF hint # "Auto-detect"
    THEN Let(OfType(shapes, lower(hint)), LAMBDA hinted_shapes :
             IF hinted_shapes # <<>> THEN MaxByConfidence(hinted_shapes)
             ELSE MaxByConfidence(shapes))
    ELSE MaxByConfidence(shapes)

\* _enhance_shape_data
enhance_shape_data(shape_data, p) ==
    [scale_factor |-> Num(1) + (p - 5) * 10,
     manufacturable |-> TRUE,
     min_feature_size |-> Max(Num(1), Num(10) \div p),
     timestamp |-> clock] @@ shape_data

\* process_sketch going on with no contours when the bytes do not decode.
process_sketch_lenient(file, hint, p) ==
    Let(detect_shapes(IF file.decodable THEN file.contours ELSE <<>>, p), LAMBDA shapes :
        Let(select_best_shape(shapes, hint), LAMBDA best_shape :
            enhance_shape_data(best_shape, p)))

\* process_sketch: any exception is re-raised as "Sketch processing failed: ...".
process_sketch(file, hint, p) ==
    IF ~file.decodable
    THEN [error |-> "Sketch processing failed", cause |-> "Could not decode uploaded image"]
    ELSE Let(detect_shapes(file.contours, p), LAMBDA shapes :
             Let(select_best_shape(shapes, hint), LAMBDA best_shape :
                 enhance_shape_data(best_shape, p)))

(***************************************************************************)
(* The requests the model submits.                                         *)
(***************************************************************************)
MaxParts == 2
MaxContours == 2

(***************************************************************************)
(* DXFGenerator (dxf_generator.py).  ezdxf is outside the repository: a    *)
(* document is the record of what is drawn into it.                        *)
(***************************************************************************)
\* datetime.now().strftime('%Y%m%d_%H%M%S'); the clock counts the seconds of
\* one minute.
strftime(now) ==
    "20250101_1200" \o Ch("0123456789", (now \div 10) + 1) \o Ch("0123456789", (now % 10) + 1)

\* The drawing generate_from_shape_data builds: the primitive of the type
\* (any other type is drawn by _generate_polygon), sized from the fields
\* read with shape_data.get(field, default), and the annotations.
dxf_document(shape_data, p) ==
    Let(Get(shape_data, "type", "circle"), LAMBDA shape_type :
        [primitive |-> IF shape_type \in {"circle", "rectangle", "triangle", "hexagon"}
                       THEN shape_type ELSE "polygon",
         center |-> Get(shape_data, "center", <<0, 0>>),
         size |-> IF shape_type = "circle"
                  THEN <<Get(shape_data, "radius", Num(25))>>
                  ELSE IF shape_type \in {"rectangle", "triangle"}
                  THEN <<Get(shape_data, "width", Num(100)), Get(shape_data, "height", Num(75))>>
                  ELSE <<Get(shape_data, "side_length", Num(50))>>,
         confidence |-> Get(shape_data, "confidence", 0),
         precision |-> p])

\* The file name of _save_dxf with the timestamp cut to the minute.
dxf_file_path_minute(shape_type, now) ==
    "generated_dxf/fabricator_ai_" \o shape_type \o "_" \o SubSeq(strftime(now), 1, 13)
        \o ".dxf"
\* self.output_dir / f"fabricator_ai_{shape_type}_{timestamp}.dxf"
dxf_file_path(shape_type, now) ==
    "generated_dxf/fabricator_ai_" \o shape_type \o "_" \o strftime(now) \o ".dxf"

\* _save_dxf: doc.saveas(file_path) replaces what the path held.
save_dxf(fs, doc, shape_data, now) ==
    Let(dxf_file_path(Get(shape_data, "type", "shape"), now), LAMBDA file_path :
        [files |-> Put(fs, file_path, doc), dxf_file_path |-> file_path])

\* generate_from_shape_data: the directory afterwards and the path returned.
generate_from_shape_data(fs, shape_data, p, now) ==
    save_dxf(fs, dxf_document(shape_data, p), shape_data, now)

(***************************************************************************)
(* The app (app.py): the handlers of the two buttons.                      *)
(***************************************************************************)
\* The except clause resetting dxf_generated as well.
on_exception_reset(ss, status) ==
    Put(Put(ss, "processing_status", status), "dxf_generated", FALSE)
\* except Exception: st.session_state.processing_status = "... failed"
on_exception(ss, status) == Put(ss, "processing_status", status)

\* create_preview
create_preview(shape_data) ==
    [title |-> shape_data.type,
     patch |-> IF shape_data.type \in {"circle", "rectangle", "triangle", "hexagon"}
               THEN shape_data.type ELSE "none"]

\* process_text_input; io_ok: writing the DXF file raises nothing.  Gives
\* the session state and the directory the handler leaves.
process_text_input(ss, fs, text, shape_type, p, io_ok) ==
    Let(Put(ss, "processing_status", "Processing text input..."), LAMBDA ss1 :
        Let(process_text(text, shape_type), LAMBDA shape_data :
            IF IsError(shape_data) \/ ~io_ok
            THEN [session_state |-> on_exception(ss1, "Text processing failed"), files |-> fs]
            ELSE Let(generate_from_shape_data(fs, shape_data, p, clock), LAMBDA saved :
                     [session_state |->
                          [dxf_generated |-> TRUE,
                           dxf_file_path |-> saved.dxf_file_path,
                           processing_metrics |->
                               [processing_time |-> 120,
                                shape_type |-> shape_data.type,
                                confidence |-> Pct(95),
                                vertices |-> Get(shape_data, "vertices", 4)],
                           processing_status |-> "Text processing complete!"] @@ ss1,
                      files |-> saved.files])))

\* process_sketch_input; plot_ok: create_preview raises nothing.
process_sketch_input(ss, fs, file, shape_type, p, io_ok, plot_ok) ==
    Let(Put(ss, "processing_status", "Processing sketch..."), LAMBDA ss1 :
        Let(process_sketch(file, shape_type, p), LAMBDA shape_data :
            IF IsError(shape_data) \/ ~io_ok
            THEN [session_state |-> on_exception(ss1, "Sketch processing failed"),
                  files |-> fs]
            ELSE Let(generate_from_shape_data(fs, shape_data, p, clock), LAMBDA saved :
                     IF ~plot_ok
                     THEN [session_state |-> on_exception(ss1, "Sketch processing failed"),
                           files |-> saved.files]
                     ELSE [session_state |->
                               [dxf_generated |-> TRUE,
                                dxf_file_path |-> saved.dxf_file_path,
                                preview_image |-> create_preview(shape_data),
                                processing_metrics |->
                                    [processing_time |-> 210,
                                     shape_type |-> shape_data.type,
                                     confidence |-> Get(shape_data, "confidence", 8750),
                                     vertices |-> Get(shape_data, "vertices", 4)],
                                processing_status |-> "Sketch processing complete!"] @@ ss1,
                           files |-> saved.files])))

\* The options of the "Expected shape type" selector.
Hints == {"Auto-detect", "Circle", "Rectangle", "Triangle", "Hexagon", "Custom"}
\* The range of the "Precision Level" slider, and its default.
Precisions == 1..10
DefaultPrecision == 7

\* A text is up to MaxParts of these phrases, joined by single spaces.
Phrases ==
    {"A  circle", "Rectangle", "hello world", "with radius 25mm", "radius = 25mm",
     "w: 10", "100mm by 50mm", "100 by 50", "2 x 3cm", "25mm"}
RECURSIVE TextsOfParts(_)
TextsOfParts(k) ==
    IF k = 0 THEN {""}
    ELSE {IF t = "" THEN ph ELSE t \o " " \o ph : t \in TextsOfParts(k - 1), ph \in Phrases}
Texts == UNION {TextsOfParts(k) : k \in 0..MaxParts}

\* Contours: two bounding boxes (with their enclosing circles) and a grid of
\* areas (below and above the noise floors 100..1000), perimeters and vertex
\* counts.  Every contour satisfies area < w*h and 4*pi*area <= perimeter^2.
Boxes ==
    {[x |-> 10, y |-> 10, w |-> 40, h |-> 40, cx |-> 30, cy |-> 30, radius |-> 28],
     [x |-> 60, y |-> 10, w |-> 80, h |-> 40, cx |-> 100, cy |-> 30, radius |-> 45]}
Contour(area, perimeter, approx, box, faults) ==
    [area |-> area, perimeter |-> perimeter, approx |-> approx, faults |-> faults] @@ box
SquareBox == CHOOSE b \in Boxes : b.w = b.h
WideBox == CHOOSE b \in Boxes : b.w # b.h
ContourGrid ==
    {Contour(a, p, n, b, {}) :
        a \in {90, 240, 800, 1200, 1500}, p \in {140, 200}, n \in {3, 4, 5, 6, 8}, b \in Boxes}
\* The contours of images with several contours: a disc, a square, a triangle,
\* a hexagon, a pentagon, and a disc on which the circle detector raises.
Samples ==
    {Contour(1500, 140, 8, SquareBox, {}),
     Contour(1500, 200, 4, SquareBox, {}),
     Contour(800, 140, 3, SquareBox, {}),
     Contour(1200, 140, 6, SquareBox, {}),
     Contour(1200, 200, 5, WideBox, {}),
     Contour(1500, 140, 8, SquareBox, {"circle"})}
RECURSIVE SeqsUpTo(_, _)
SeqsUpTo(S, k) ==
    IF k = 0 THEN {<<>>}
    ELSE SeqsUpTo(S, k - 1) \cup {Append(q, c) : q \in SeqsUpTo(S, k - 1), c \in S}
Files ==
    {[decodable |-> FALSE, contours |-> <<>>]}
        \cup {[decodable |-> TRUE, contours |-> q] : q \in SeqsUpTo(Samples, MaxContours)}
        \cup {[decodable |-> TRUE, contours |-> <<c>>] : c \in ContourGrid}

NoFile == [decodable |-> FALSE, contours |-> <<>>]
NoResult == [pending |-> TRUE]
NoCall == [fn |-> "none", args |-> <<>>, returned |-> NoResult]
NoThreads == <<>>
\* No script run yet: st.session_state holds no key; generated_dxf is empty.
NoSession == EmptyDict
NoFiles == EmptyDict
\* TextProcessor.__init__ and SketchProcessor.__init__
Attributes ==
    [shape_patterns |-> shape_patterns,
     units |-> units,
     dimension_patterns |-> DimNames,
     shape_templates |-> DetectorNames]

Init ==
    /\ pc = "ready"
    /\ detected_shapes = <<>>
    /\ result = NoResult
    /\ call = NoCall
    /\ threads = NoThreads
    /\ clock = 0
    /\ instance = Attributes
    /\ session_state = NoSession
    /\ files = NoFiles
    /\ expected_shape \in Hints
    /\ \/ /\ input_method = "text"
          /\ text_input \in Texts
          /\ uploaded_file = NoFile
          /\ precision = DefaultPrecision
       \/ /\ input_method = "sketch"
          /\ text_input = ""
          /\ uploaded_file \in Files
          /\ precision \in Precisions

\* TextProcessor.process_text(text_input, expected_shape), the entry point of
\* the text pipeline.
ProcessText ==
    /\ pc = "ready"
    /\ input_method = "text"
    /\ result' = process_text(text_input, expected_shape)
    /\ pc' = "done"
    /\ UNCHANGED <<input_method, text_input, uploaded_file, expected_shape, precision,
                   detected_shapes, call, threads, clock, instance,
                   session_state, files>>

\* SketchProcessor.process_sketch(uploaded_file, expected_shape, precision),
\* the entry point of the sketch pipeline.
ProcessSketch ==
    /\ pc = "ready"
    /\ input_method = "sketch"
    /\ detected_shapes' = IF uploaded_file.decodable
                          THEN detect_shapes(uploaded_file.contours, precision)
                          ELSE <<>>
    /\ result' = process_sketch(uploaded_file, expected_shape, precision)
    /\ pc' = "done"
    /\ UNCHANGED <<input_method, text_input, uploaded_file, expected_shape, precision,
                   call, threads, clock, instance,
                   session_state, files>>

Next == ProcessText \/ ProcessSketch

Spec == Init /\ [][Next]_vars

(***************************************************************************)
(* Direct calls of single methods of TextProcessor, one call per           *)
(* behaviour: call.fn names the method, call.args holds its arguments and  *)
(* call.returned what it returns or raises.                                *)
(***************************************************************************)
\* Values in mm (multiples of 0.05) and unit tokens, known and unknown.
Values == {0, 5, Num(1), 250, Num(5), Num(25)}
UnitTokens == DOMAIN units \cup {"MM", "CM", "Inches", "Ft", "xyz", "mms", "km", ""}
ConvertCalls ==
    {[fn |-> "_convert_to_mm", args |-> <<v, u>>, returned |-> NoResult] :
        v \in Values, u \in UnitTokens}
DetectTexts ==
    {"", "hello world", "a circle", "box and circle", "hexagon ring", "triangular poly",
     "figure of a hexagon", "some shape", "circles", "pyramid box", "Box"}
DetectCalls ==
    {[fn |-> "_detect_shape_type", args |-> <<t, h>>, returned |-> NoResult] :
        t \in DetectTexts, h \in Hints}
ExtractTexts ==
    {"", "hello", "25mm", "100mm by 50mm", "radius 25mm", "radius: 25mm",
     "radius = 25 radius = 30mm", "width: 10 height: 5cm", "side=2in",
     "2 x 3cm", "10 by 20", "circle 25mm", "5 cm", "5 inches", "3 ft", "5 millimeters"}
ExtractCalls ==
    {[fn |-> "_extract_dimensions", args |-> <<t>>, returned |-> NoResult] :
        t \in ExtractTexts}
HandleTexts ==
    {"hello", "25mm", "circle 25mm", "2.5mm round", "5 in 3 cm", "100 by 50", "2 x 3cm",
     "circle 100 by 50", "round 3x4 5 by 6", "10 by 20 30 by 40", "10 by 20 5cm"}
HandleDims ==
    {EmptyDict, [diameter |-> Num(7)], [radius |-> Num(7)], [width |-> Num(7)],
     [height |-> Num(7)], [width |-> Num(7), height |-> Num(8)]}
HandleCalls ==
    {[fn |-> "_handle_special_cases", args |-> <<t, d>>, returned |-> NoResult] :
        t \in HandleTexts, d \in HandleDims}
ProcessTexts ==
    {"hello", "Circle diameter 50", "a rectangular box", "circle 25mm", "square 5 cm",
     "hexagon", "2 x 3", "w:1"}
ProcessTextCalls ==
    {[fn |-> "process_text", args |-> <<t, h>>, returned |-> NoResult] :
        t \in ProcessTexts, h \in {"Auto-detect", "Custom"}}
CircleDims ==
    {EmptyDict, [radius |-> Num(7)], [radius |-> 1250], [diameter |-> Num(10)],
     [diameter |-> 250], [radius |-> Num(7), diameter |-> Num(10)],
     [radius |-> Num(5), diameter |-> Num(10)], [width |-> Num(3), height |-> Num(4)]}
ConstructCircleCalls ==
    {[fn |-> "_construct_circle_data", args |-> <<d>>, returned |-> NoResult] :
        d \in CircleDims}
Calls ==
    ConvertCalls \cup DetectCalls \cup ExtractCalls \cup HandleCalls \cup ProcessTextCalls
        \cup ConstructCircleCalls

CallInit ==
    /\ input_method = "call"
    /\ text_input = ""
    /\ uploaded_file = NoFile
    /\ expected_shape = "Auto-detect"
    /\ precision = DefaultPrecision
    /\ pc = "ready"
    /\ detected_shapes = <<>>
    /\ result = NoResult
    /\ threads = NoThreads
    /\ clock = 0
    /\ instance = Attributes
    /\ session_state = NoSession
    /\ files = NoFiles
    /\ call \in Calls

\* self._convert_to_mm(value, unit)
ConvertToMm ==
    /\ pc = "ready"
    /\ call.fn = "_convert_to_mm"
    /\ call' = [call EXCEPT !.returned = convert_to_mm(call.args[1], call.args[2])]
    /\ pc' = "done"
    /\ UNCHANGED <<input_method, text_input, uploaded_file, expected_shape, precision,
                   detected_shapes, result, threads, clock, instance,
                   session_state, files>>

\* self._detect_shape_type(text, expected_shape)
DetectShapeType ==
    /\ pc = "ready"
    /\ call.fn = "_detect_shape_type"
    /\ call' = [call EXCEPT !.returned = detect_shape_type(call.args[1], call.args[2])]
    /\ pc' = "done"
    /\ UNCHANGED <<input_method, text_input, uploaded_file, expected_shape, precision,
                   detected_shapes, result, threads, clock, instance,
                   session_state, files>>

\* self._extract_dimensions(text): the mapping returned or the exception raised.
ExtractDimensions ==
    /\ pc = "ready"
    /\ call.fn = "_extract_dimensions"
    /\ call' = [call EXCEPT !.returned = extract_dimensions(call.args[1])]
    /\ pc' = "done"
    /\ UNCHANGED <<input_method, text_input, uploaded_file, expected_shape, precision,
                   detected_shapes, result, threads, clock, instance,
                   session_state, files>>

\* self._handle_special_cases(text, dimensions)
HandleSpecialCases ==
    /\ pc = "ready"
    /\ call.fn = "_handle_special_cases"
    /\ call' = [call EXCEPT !.returned = handle_special_cases(call.args[1], call.args[2])]
    /\ pc' = "done"
    /\ UNCHANGED <<input_method, text_input, uploaded_file, expected_shape, precision,
                   detected_shapes, result, threads, clock, instance,
                   session_state, files>>

\* TextProcessor().process_text(text_input, expected_shape): the record
\* returned or the exception raised.
ProcessTextCall ==
    /\ pc = "ready"
    /\ call.fn = "process_text"
    /\ call' = [call EXCEPT !.returned = process_text(call.args[1], call.args[2])]
    /\ pc' = "done"
    /\ UNCHANGED <<input_method, text_input, uploaded_file, expected_shape, precision,
                   detected_shapes, result, threads, clock, instance,
                   session_state, files>>

\* self._construct_circle_data(dimensions)
ConstructCircleData ==
    /\ pc = "ready"
    /\ call.fn = "_construct_circle_data"
    /\ call' = [call EXCEPT !.returned = construct_circle_data(call.args[1])]
    /\ pc' = "done"
    /\ UNCHANGED <<input_method, text_input, uploaded_file, expected_shape, precision,
                   detected_shapes, result, threads, clock, instance,
                   session_state, files>>

CallNext ==
    \/ ConvertToMm
    \/ DetectShapeType
    \/ ExtractDimensions
    \/ HandleSpecialCases
    \/ ProcessTextCall
    \/ ConstructCircleData

CallSpec == CallInit /\ [][CallNext]_vars

(***************************************************************************)
(* Concurrent calls.  Each thread runs one process_text or process_sketch  *)
(* call on the shared TextProcessor and SketchProcessor instances; a step  *)
(* is one statement of the method's try block, and the steps of different  *)
(* threads interleave.  A thread's record holds the call's arguments, its  *)
(* position pc, its local variables and, at the end, what it returned      *)
(* (pc = "returned") or raised (pc = "raised").                            *)
(***************************************************************************)
MaxClock == 1
Threads == {1, 2, 3}

\* The local variable `name` of thread t is assigned `value`.
Store_shared(ths, t, name, value) ==
    IF name = "pc" THEN [ths EXCEPT ![t][name] = value]
    ELSE [u \in DOMAIN ths |-> [ths[u] EXCEPT ![name] = value]]
Store(ths, t, name, value) == [ths EXCEPT ![t][name] = value]
\* An assignment followed by the move to the next statement.
Assign(t, name, value, next) == Store(Store(threads, t, name, value), t, "pc", next)

TextCall(text, hint) ==
    [kind |-> "text", text_input |-> text, expected_shape |-> hint,
     uploaded_file |-> NoFile, precision |-> DefaultPrecision, pc |-> "normalize",
     normalized_text |-> "", detected_shape |-> "", dimensions |-> EmptyDict,
     shape_data |-> NoResult, detected_shapes |-> <<>>, best_shape |-> NoResult,
     result |-> NoResult]
SketchCall(file, hint, p) ==
    [kind |-> "sketch", text_input |-> "", expected_shape |-> hint,
     uploaded_file |-> file, precision |-> p, pc |-> "decode",
     normalized_text |-> "", detected_shape |-> "", dimensions |-> EmptyDict,
     shape_data |-> NoResult, detected_shapes |-> <<>>, best_shape |-> NoResult,
     result |-> NoResult]
\* The calls a thread may make: text calls that return and one that raises,
\* sketch calls on an image with two shapes and on undecodable bytes.
ThreadCalls ==
    {TextCall("hi", "Auto-detect"),
     TextCall("R 5cm", "Rectangle"),
     TextCall("w:1", "Custom"),
     SketchCall([decodable |-> TRUE,
                 contours |-> <<Contour(1500, 200, 4, SquareBox, {}),
                                Contour(800, 140, 3, SquareBox, {})>>],
                "Rectangle", 2),
     SketchCall(NoFile, "Auto-detect", DefaultPrecision)}

ThreadInit ==
    /\ input_method = "threads"
    /\ text_input = ""
    /\ uploaded_file = NoFile
    /\ expected_shape = "Auto-detect"
    /\ precision = DefaultPrecision
    /\ pc = "ready"
    /\ detected_shapes = <<>>
    /\ result = NoResult
    /\ call = NoCall
    /\ threads \in [Threads -> ThreadCalls]
    /\ clock = 0
    /\ instance = Attributes
    /\ session_state = NoSession
    /\ files = NoFiles

ThreadFrame ==
    UNCHANGED <<input_method, text_input, uploaded_file, expected_shape, precision, pc,
                detected_shapes, result, call, clock, instance,
                   session_state, files>>

\* normalized_text = self._normalize_text(text_input)
Normalize(t) ==
    /\ threads[t].pc = "normalize"
    /\ threads' = Assign(t, "normalized_text", normalize_text(threads[t].text_input),
                         "detect_type")
    /\ ThreadFrame
\* detected_shape = self._detect_shape_type(normalized_text, expected_shape)
DetectType(t) ==
    /\ threads[t].pc = "detect_type"
    /\ threads' = Assign(t, "detected_shape",
                         detect_shape_type(threads[t].normalized_text,
                                           threads[t].expected_shape),
                         "extract")
    /\ ThreadFrame
\* dimensions = self._extract_dimensions(normalized_text), or the exception
\* it raises, re-raised by the except clause.
Extract(t) ==
    /\ threads[t].pc = "extract"
    /\ \E dimensions \in {extract_dimensions(threads[t].normalized_text)} :
           threads' = IF IsError(dimensions)
                      THEN Assign(t, "result", [error |-> "Text processing failed"], "raised")
                      ELSE Assign(t, "dimensions", dimensions, "construct")
    /\ ThreadFrame
\* shape_data = self._construct_shape_data(detected_shape, dimensions, normalized_text)
Construct(t) ==
    /\ threads[t].pc = "construct"
    /\ threads' = Assign(t, "shape_data",
                         construct_shape_data(threads[t].detected_shape,
                                              threads[t].dimensions,
                                              threads[t].normalized_text),
                         "metadata")
    /\ ThreadFrame
\* shape_data = self._add_metadata(shape_data, normalized_text); return shape_data
Metadata(t) ==
    /\ threads[t].pc = "metadata"
    /\ threads' = Assign(t, "result",
                         add_metadata(threads[t].shape_data, threads[t].normalized_text),
                         "returned")
    /\ ThreadFrame

\* image = cv2.imdecode(...); if image is None: raise ValueError(...)
Decode(t) ==
    /\ threads[t].pc = "decode"
    /\ threads' = IF threads[t].uploaded_file.decodable
                  THEN Store(threads, t, "pc", "preprocess")
                  ELSE Assign(t, "result",
                              [error |-> "Sketch processing failed",
                               cause |-> "Could not decode uploaded image"],
                              "raised")
    /\ ThreadFrame
\* processed_image = self._preprocess_image(image, precision)
Preprocess(t) ==
    /\ threads[t].pc = "preprocess"
    /\ threads' = Store(threads, t, "pc", "detect_shapes")
    /\ ThreadFrame
\* detected_shapes = self._detect_shapes(processed_image, precision)
DetectShapes(t) ==
    /\ threads[t].pc = "detect_shapes"
    /\ threads' = Assign(t, "detected_shapes",
                         detect_shapes(threads[t].uploaded_file.contours,
                                       threads[t].precision),
                         "select")
    /\ ThreadFrame
\* best_shape = self._select_best_shape(detected_shapes, expected_shape)
SelectBest(t) ==
    /\ threads[t].pc = "select"
    /\ threads' = Assign(t, "best_shape",
                         select_best_shape(threads[t].detected_shapes,
                                           threads[t].expected_shape),
                         "enhance")
    /\ ThreadFrame
\* enhanced_shape = self._enhance_shape_data(best_shape, precision); return it
Enhance(t) ==
    /\ threads[t].pc = "enhance"
    /\ threads' = Assign(t, "result",
                         enhance_shape_data(threads[t].best_shape, threads[t].precision),
                         "returned")
    /\ ThreadFrame

\* Time passes.
Tick ==
    /\ input_method \in {"threads", "app", "dxf"}
    /\ clock < MaxClock
    /\ clock' = clock + 1
    /\ UNCHANGED <<input_method, text_input, uploaded_file, expected_shape, precision, pc,
                   detected_shapes, result, call, threads, instance,
                   session_state, files>>

ThreadNext ==
    \/ \E t \in Threads : Normalize(t)
    \/ \E t \in Threads : DetectType(t)
    \/ \E t \in Threads : Extract(t)
    \/ \E t \in Threads : Construct(t)
    \/ \E t \in Threads : Metadata(t)
    \/ \E t \in Threads : Decode(t)
    \/ \E t \in Threads : Preprocess(t)
    \/ \E t \in Threads : DetectShapes(t)
    \/ \E t \in Threads : SelectBest(t)
    \/ \E t \in Threads : Enhance(t)
    \/ Tick

ThreadSpec == ThreadInit /\ [][ThreadNext]_vars

(***************************************************************************)
(* The app: one session, a sequence of button presses.                     *)
(***************************************************************************)
AppTexts == {"hi", "Circle diameter 50", "w:1"}
AppFiles == {NoFile, [decodable |-> TRUE, contours |-> <<Contour(1500, 200, 4, SquareBox, {})>>]}

\* __main__: dxf_generated is initialised to False when the key is absent.
AppInit ==
    /\ input_method = "app"
    /\ text_input = ""
    /\ uploaded_file = NoFile
    /\ expected_shape = "Auto-detect"
    /\ precision = DefaultPrecision
    /\ pc = "ready"
    /\ detected_shapes = <<>>
    /\ result = NoResult
    /\ call = NoCall
    /\ threads = NoThreads
    /\ clock = 0
    /\ instance = Attributes
    /\ session_state = [dxf_generated |-> FALSE]
    /\ files = NoFiles

AppFrame ==
    UNCHANGED <<input_method, text_input, uploaded_file, expected_shape, precision, pc,
                detected_shapes, result, call, threads, clock, instance>>

\* "Generate from Text" pressed with a non-blank text: process_text_input
TextRequest ==
    /\ input_method = "app"
    /\ \E text \in AppTexts : \E io_ok \in BOOLEAN :
       \E after \in {process_text_input(session_state, files, text, expected_shape,
                                         precision, io_ok)} :
           /\ session_state' = after.session_state
           /\ files' = after.files
    /\ AppFrame

\* "Process Sketch" pressed: process_sketch_input
SketchRequest ==
    /\ input_method = "app"
    /\ \E file \in AppFiles : \E io_ok \in BOOLEAN : \E plot_ok \in BOOLEAN :
       \E after \in {process_sketch_input(session_state, files, file, expected_shape,
                                           precision, io_ok, plot_ok)} :
           /\ session_state' = after.session_state
           /\ files' = after.files
    /\ AppFrame

AppNext == TextRequest \/ SketchRequest \/ Tick

AppSpec == AppInit /\ [][AppNext]_vars

(***************************************************************************)
(* Concurrent generations.  Each thread runs one generate_from_shape_data  *)
(* call; the DXFGenerator instances share the generated_dxf directory.     *)
(* A thread's record holds the call's arguments, its position pc, the      *)
(* document, the second read by _save_dxf, the path, and order: the rank   *)
(* of its save among the saves made so far.                                *)
(***************************************************************************)
GenShapes ==
    {FallbackCircle,
     construct_shape_data("circle", EmptyDict, ""),
     construct_shape_data("rectangle", EmptyDict, "")}
GenCall(shape_data) ==
    [kind |-> "generate", shape_data |-> shape_data, precision |-> DefaultPrecision,
     pc |-> "draw", doc |-> NoResult, second |-> 0, dxf_file_path |-> "", order |-> 0]

DxfInit ==
    /\ input_method = "dxf"
    /\ text_input = ""
    /\ uploaded_file = NoFile
    /\ expected_shape = "Auto-detect"
    /\ precision = DefaultPrecision
    /\ pc = "ready"
    /\ detected_shapes = <<>>
    /\ result = NoResult
    /\ call = NoCall
    /\ threads \in [Threads -> {GenCall(shape_data) : shape_data \in GenShapes}]
    /\ clock = 0
    /\ instance = Attributes
    /\ session_state = NoSession
    /\ files = NoFiles

DxfFrame ==
    UNCHANGED <<input_method, text_input, uploaded_file, expected_shape, precision, pc,
                detected_shapes, result, call, clock, instance, session_state>>

\* doc = ezdxf.new(...); the primitive and the annotations are drawn.
Draw(t) ==
    /\ threads[t].pc = "draw"
    /\ threads' = Assign(t, "doc",
                         dxf_document(threads[t].shape_data, threads[t].precision), "stamp")
    /\ files' = files
    /\ DxfFrame
\* _save_dxf: timestamp = datetime.now().strftime(...); file_path = ...
Stamp(t) ==
    /\ threads[t].pc = "stamp"
    /\ threads' = Store(Assign(t, "dxf_file_path",
                               dxf_file_path(Get(threads[t].shape_data, "type", "shape"),
                                             clock),
                               "save"),
                        t, "second", clock)
    /\ files' = files
    /\ DxfFrame
\* doc.saveas(str(file_path)); return str(file_path)
Save(t) ==
    /\ threads[t].pc = "save"
    /\ files' = Put(files, threads[t].dxf_file_path, threads[t].doc)
    /\ threads' = Assign(t, "order",
                         1 + Cardinality({u \in Threads : threads[u].pc = "returned"}),
                         "returned")
    /\ DxfFrame

DxfNext ==
    \/ \E t \in Threads : Draw(t)
    \/ \E t \in Threads : Stamp(t)
    \/ \E t \in Threads : Save(t)
    \/ Tick

DxfSpec == DxfInit /\ [][DxfNext]_vars

(***************************************************************************)
(* Properties.                                                             *)
(***************************************************************************)
TextDone == pc = "done" /\ input_method = "text"
SketchDone == pc = "done" /\ input_method = "sketch"
\* The five shape types of the shape record.
ShapeTypes == {"circle", "rectangle", "triangle", "hexagon", "polygon"}

\* C1: process_text never rejects input: for every text (labeled dimensions
\* such as 'radius = 25mm' or 'w: 10' included) and every expected-shape
\* value, it returns a shape record and raises nothing.
C1_NeverRejects == TextDone => ~IsError(result)

\* C2: auto-detect text that names a circle and gives 'radius 25mm' yields
\* type circle, radius 25, diameter 50, area pi*25^2 and confidence >= 85.
C2_CircleRadius ==
    (/\ TextDone
     /\ expected_shape = "Auto-detect"
     /\ normalize_text(text_input) = "a circle with radius 25mm")
    => /\ ~IsError(result)
       /\ result.type = "circle"
       /\ result.radius = Num(25)
       /\ result.diameter = Num(50)
       /\ result.area = PiTimes(10 * Num(25) * Num(25))
       /\ result.confidence >= Pct(85)

\* C3: auto-detect text 'Rectangle 100mm by 50mm' yields type rectangle with
\* width 100, height 50 and area 100*50.
C3_RectangleBy ==
    (/\ TextDone
     /\ expected_shape = "Auto-detect"
     /\ normalize_text(text_input) = "rectangle 100mm by 50mm")
    => /\ ~IsError(result)
       /\ result.type = "rectangle"
       /\ result.width = Num(100)
       /\ result.height = Num(50)
       /\ result.area = Rat(10 * Num(100) * Num(50))

\* No shape keyword and no dimension pattern (labeled, '<a> by <b>' or bare
\* '<n><unit>') is recognized in the normalized text.
Unrecognized(text) ==
    \E s \in {normalize_text(text)} :
        /\ \A i \in 1..Len(ShapeNames) : ~SearchWord(s, shape_patterns[ShapeNames[i]])
        /\ \A i \in 1..Len(DimNames) : DimFindAll(s, 1, DimNames[i]) = <<>>
        /\ SizeFindAll(s, 1) = <<>>
        /\ SimpleFindAll(s, 1) = <<>>
\* C4: for auto-detect text in which no shape keyword and no dimension
\* pattern is recognized, process_text raises nothing and returns type circle
\* with radius 25.0 and diameter 50.0.
C4_DefaultCircle ==
    (TextDone /\ expected_shape = "Auto-detect" /\ Unrecognized(text_input))
    => /\ ~IsError(result)
       /\ result.type = "circle"
       /\ result.radius = Num(25)
       /\ result.diameter = Num(50)
C4_Witness ==
    /\ TextDone
    /\ expected_shape = "Auto-detect"
    /\ text_input = "hello world"
    /\ Unrecognized(text_input)
    /\ result.type = "circle"
    /\ result.radius = Num(25)

\* C5: every record either pipeline returns has its type among the five shape
\* types, for every input and every value of the expected-shape selector.
C5_TypeAmongFive == (pc = "done" /\ ~IsError(result)) => result.type \in ShapeTypes

InRange(record) == record.confidence \in 0..Pct(100)
\* C6: the text record, every sketch hypothesis and the fallback record have
\* a confidence in [0, 100], for every precision in 1..10.
C6_ConfidenceInRange ==
    pc = "done"
    => /\ IsError(result) \/ InRange(result)
       /\ \A i \in 1..Len(detected_shapes) : InRange(detected_shapes[i])
C6_Witness ==
    /\ SketchDone
    /\ ~IsError(result)
    /\ InRange(result)
    /\ \E i \in 1..Len(detected_shapes) : detected_shapes[i].confidence = Pct(100)
    /\ \E i \in 1..Len(detected_shapes) : detected_shapes[i].confidence < Pct(100)

\* The geometry fields the per-type formulas read.
GeometryFields(type) ==
    IF type = "circle" THEN {"radius", "diameter"}
    ELSE IF type \in {"rectangle", "triangle"} THEN {"width", "height"}
    ELSE IF type = "hexagon" THEN {"side_length"}
    ELSE {"width", "height", "side_length"}
\* Area and perimeter by the per-type formulas: circle pi*r^2 and pi*d,
\* rectangle w*h and 2(w+h), triangle 0.5*b*h and 3*sqrt(b^2+h^2), hexagon
\* (3*sqrt(3)/2)*s^2 and 6s, any other type 0.8*w*h and 8s.
FormulaArea(r) ==
    IF r.type = "circle" THEN PiTimes(10 * r.radius * r.radius)
    ELSE IF r.type = "rectangle" THEN Rat(10 * r.width * r.height)
    ELSE IF r.type = "triangle" THEN Rat(5 * r.width * r.height)
    ELSE IF r.type = "hexagon" THEN Sqrt3Times(15 * r.side_length * r.side_length)
    ELSE Rat(8 * r.width * r.height)
FormulaPerimeter(r) ==
    IF r.type = "circle" THEN PiTimes(r.diameter)
    ELSE IF r.type = "rectangle" THEN Rat(2 * (r.width + r.height))
    ELSE IF r.type = "triangle" THEN RootTimes(3, r.width * r.width + r.height * r.height)
    ELSE IF r.type = "hexagon" THEN Rat(6 * r.side_length)
    ELSE Rat(8 * r.side_length)
Reproduces(r) ==
    /\ GeometryFields(r.type) \subseteq DOMAIN r
    /\ FormulaArea(r) = r.area
    /\ FormulaPerimeter(r) = r.perimeter
C8_FallbackCircle ==
    (SketchDone /\ uploaded_file.decodable /\ detected_shapes = <<>>)
    => /\ ~IsError(result)
       /\ result.type = "circle"
       /\ result.center = <<0, 0>>
       /\ result.radius = Num(50)
       /\ result.confidence = Pct(50)
       /\ result.vertices = 0
C8_Witness ==
    /\ SketchDone
    /\ uploaded_file.decodable
    /\ uploaded_file.contours # <<>>
    /\ detected_shapes = <<>>
    /\ expected_shape = "Hexagon"
    /\ result.type = "circle"
    /\ result.confidence = Pct(50)

\* C9: for the circle, rectangle, triangle and hexagon detectors and all
\* precisions p < q in 1..10, every contour accepted at precision q is also
\* accepted at precision p.
C9_AcceptanceMonotone ==
    SketchDone
    => \A i \in 1..Len(uploaded_file.contours) :
           \A d \in 1..4 :
               \A p \in 1..(precision - 1) :
                   Detect(DetectorNames[d], uploaded_file.contours[i].approx,
                          uploaded_file.contours[i], precision) # <<>>
                   => Detect(DetectorNames[d], uploaded_file.contours[i].approx,
                             uploaded_file.contours[i], p) # <<>>

\* The positions of the hypotheses of the hinted type.
Hinted == {i \in 1..Len(detected_shapes) : detected_shapes[i].type = lower(expected_shape)}
\* C10: with a non-auto hint and at least one hypothesis of the hinted type
\* (the hint lower-cased), the returned hypothesis has the hinted type and the
\* highest confidence among the hypotheses of that type, even when a
\* hypothesis of another type is strictly more confident.
C10_HintedBest ==
    (SketchDone /\ uploaded_file.decodable /\ expected_shape # "Auto-detect" /\ Hinted # {})
    => /\ ~IsError(result)
       /\ result.type = lower(expected_shape)
       /\ \A i \in Hinted : detected_shapes[i].confidence <= result.confidence
       /\ \E i \in Hinted : detected_shapes[i].confidence = result.confidence
C10_Witness ==
    /\ SketchDone
    /\ expected_shape # "Auto-detect"
    /\ Hinted # {}
    /\ result.type = lower(expected_shape)
    /\ \E i \in 1..Len(detected_shapes) : detected_shapes[i].confidence > result.confidence

\* The returned record is the hypothesis h, with the fields _enhance_shape_data
\* adds.
Returns(h) ==
    /\ DOMAIN h \subseteq DOMAIN result
    /\ \A k \in DOMAIN h : result[k] = h[k]
\* C11: with a non-empty hypothesis list and the hint auto or matching no
\* hypothesis, the returned record is the first hypothesis in generation
\* order whose confidence is the maximum over all hypotheses.
C11_FirstGlobalBest ==
    (/\ SketchDone
     /\ uploaded_file.decodable
     /\ detected_shapes # <<>>
     /\ (expected_shape = "Auto-detect" \/ Hinted = {}))
    => \E i \in 1..Len(detected_shapes) :
           /\ Returns(detected_shapes[i])
           /\ \A j \in 1..Len(detected_shapes) :
                  detected_shapes[j].confidence <= detected_shapes[i].confidence
           /\ \A j \in 1..(i - 1) :
                  detected_shapes[j].confidence < detected_shapes[i].confidence
C11_Witness ==
    /\ SketchDone
    /\ expected_shape = "Triangle"
    /\ Len(detected_shapes) >= 2
    /\ Hinted = {}
    /\ Returns(detected_shapes[1])
    /\ \E j \in 2..Len(detected_shapes) :
           /\ detected_shapes[j].confidence = detected_shapes[1].confidence
           /\ detected_shapes[j].type # detected_shapes[1].type

\* The factor the unit table gives a lower-cased token, in tenths: mm 1,
\* cm 10, m 1000, in 25.4, ft 304.8 and their long names; 0 for any other
\* token.
TableFactor(token) ==
    IF token \in {"mm", "millimeter", "millimeters"} THEN 10
    ELSE IF token \in {"cm", "centimeter", "centimeters"} THEN 100
    ELSE IF token \in {"m", "meter", "meters"} THEN 10000
    ELSE IF token \in {"in", "inch", "inches"} THEN 254
    ELSE IF token \in {"ft", "foot", "feet"} THEN 3048
    ELSE 0
\* C12: _convert_to_mm(value, unit) returns value times the factor of the
\* unit token, matched case-insensitively, and value unchanged, without
\* error, for any other token.
C12_ConvertToMm ==
    (pc = "done" /\ call.fn = "_convert_to_mm")
    => \E factor \in {TableFactor(lower(call.args[2]))} :
           IF factor # 0
           THEN 10 * call.returned = call.args[1] * factor
           ELSE call.returned = call.args[1]
C12_Witness ==
    /\ pc = "done"
    /\ call.fn = "_convert_to_mm"
    /\ call.args = <<Num(5), "CM">>
    /\ call.returned = Num(50)

(***************************************************************************)
(* Concurrent calls (ThreadSpec).                                          *)
(***************************************************************************)
Finished(t) == threads[t].pc \in {"returned", "raised"}
\* A record without its timestamp.
Outcome(r) == [k \in DOMAIN r \ {"timestamp"} |-> r[k]]
SameTextCall(t, u) ==
    /\ threads[t].kind = "text"
    /\ threads[u].kind = "text"
    /\ threads[t].text_input = threads[u].text_input
    /\ threads[t].expected_shape = threads[u].expected_shape

Alone(t) ==
    IF threads[t].kind = "text"
    THEN process_text(threads[t].text_input, threads[t].expected_shape)
    ELSE process_sketch(threads[t].uploaded_file, threads[t].expected_shape,
                        threads[t].precision)

\* C14: no call writes an attribute of the shared instance, and under every
\* interleaving each call ends as it would alone: it raises exactly when the
\* solo call raises and otherwise returns the solo record (the timestamp,
\* read from the wall clock, aside).
C14_NoCrossCallState ==
    /\ instance = Attributes
    /\ \A t \in DOMAIN threads :
           Finished(t) =>
               Let(Alone(t), LAMBDA alone :
                   /\ threads[t].pc = "raised" <=> IsError(alone)
                   /\ Outcome(threads[t].result) = Outcome(alone))
C14_Witness ==
    \E t \in DOMAIN threads : \E u \in DOMAIN threads : \E v \in DOMAIN threads :
        /\ threads[t].kind = "sketch"
        /\ threads[t].pc = "returned"
        /\ threads[u].kind = "text"
        /\ threads[u].pc = "metadata"
        /\ threads[v].kind = "text"
        /\ threads[v].pc = "raised"
        /\ threads[u].text_input # threads[v].text_input

(***************************************************************************)
(* _detect_shape_type (CallSpec).                                          *)
(***************************************************************************)
LowerHint ==
    [Circle |-> "circle", Rectangle |-> "rectangle", Triangle |-> "triangle",
     Hexagon |-> "hexagon", Custom |-> "custom"]
\* The groups, by position in the fixed order, with a keyword in the text.
MatchingGroups(text) ==
    {i \in 1..Len(ShapeNames) : SearchWord(text, shape_patterns[ShapeNames[i]])}

\* C15: _detect_shape_type returns the lower-cased hint when the hint is not
\* "Auto-detect", whatever the text; otherwise the first of circle, rectangle,
\* triangle, hexagon, polygon (in that order, not the order of appearance)
\* with a keyword in the text, and "circle" when there is none.
C15_DetectShapeType ==
    (pc = "done" /\ call.fn = "_detect_shape_type")
        => IF call.args[2] # "Auto-detect"
           THEN call.returned = LowerHint[call.args[2]]
           ELSE Let(MatchingGroups(call.args[1]), LAMBDA hits :
                    IF hits = {} THEN call.returned = "circle"
                    ELSE \E i \in hits : /\ call.returned = ShapeNames[i]
                                         /\ \A j \in hits : i <= j)
C15_Witness ==
    /\ pc = "done"
    /\ call.fn = "_detect_shape_type"
    /\ call.args = <<"box and circle", "Auto-detect">>
    /\ call.returned = "circle"

(***************************************************************************)
(* The records and DXFGenerator (dxf_generator.py).                        *)
(***************************************************************************)
\* The geometry fields generate_from_shape_data reads for a type, each with
\* shape_data.get(field, default); a type outside the four named ones is
\* drawn by _generate_polygon.
DxfFields(type) ==
    IF type = "circle" THEN {"center", "radius"}
    ELSE IF type \in {"rectangle", "triangle"} THEN {"center", "width", "height"}
    ELSE {"center", "side_length"}

\* C16: every record process_text or process_sketch returns holds every
\* geometry field DXFGenerator reads for its type (circle: center, radius;
\* rectangle and triangle: center, width, height; hexagon and polygon:
\* center, side_length), so no primitive is sized from the emitter's default.
C16_EmitterFields ==
    (pc = "done" /\ input_method \in {"text", "sketch"} /\ ~IsError(result))
        => DxfFields(result.type) \subseteq DOMAIN result

\* C17: every record of type circle (text record, sketch circle hypothesis,
\* fallback record) has vertices = 0.
C17_CircleVertices ==
    (pc = "done" /\ input_method \in {"text", "sketch"})
        => /\ (~IsError(result) /\ result.type = "circle") => result.vertices = 0
           /\ \A i \in 1..Len(detected_shapes) :
                  detected_shapes[i].type = "circle" => detected_shapes[i].vertices = 0

\* The fields _enhance_shape_data adds.
EnrichmentFields == {"scale_factor", "manufacturable", "min_feature_size", "timestamp"}

\* C18: when the uploaded bytes do not decode, process_sketch raises
\* "Sketch processing failed" carrying the cause "Could not decode uploaded
\* image" and returns no record: nothing was detected, selected or enriched.
C18_DecodeFailure ==
    (SketchDone /\ ~uploaded_file.decodable)
        => /\ IsError(result)
           /\ result.error = "Sketch processing failed"
           /\ result.cause = "Could not decode uploaded image"
           /\ "type" \notin DOMAIN result
           /\ DOMAIN result \cap EnrichmentFields = {}
           /\ detected_shapes = <<>>
C18_Witness ==
    /\ SketchDone
    /\ ~uploaded_file.decodable
    /\ IsError(result)
    /\ expected_shape = "Circle"

\* The hypotheses kept for contour c from the detector named n.
Kept(c, n) ==
    {i \in 1..Len(detected_shapes) :
        detected_shapes[i].contour = c /\ detected_shapes[i].type = n}
ContoursOf(file) == {file.contours[i] : i \in 1..Len(file.contours)}
DetectorSet == {DetectorNames[i] : i \in 1..Len(DetectorNames)}

\* C19: a detector that raises on a contour contributes no hypothesis for
\* that contour and raises nothing to the caller; every other detector on
\* that contour, and every detector on the other contours, is still run and
\* its hypothesis kept.
C19_DetectorIsolation ==
    (SketchDone /\ uploaded_file.decodable)
        => /\ ~IsError(result)
           /\ \A c \in ContoursOf(uploaded_file) : \A n \in DetectorSet :
                  IF n \in c.faults \/ c.area <= 100 * precision
                  THEN Kept(c, n) = {}
                  ELSE (Detect(n, c.approx, c, precision) # <<>>) <=> (Kept(c, n) # {})
C19_Witness ==
    /\ SketchDone
    /\ Len(uploaded_file.contours) = 2
    /\ uploaded_file.contours[1].faults = {"circle"}
    /\ uploaded_file.contours[2].faults = {}
    /\ Kept(uploaded_file.contours[1], "circle") = {}
    /\ Kept(uploaded_file.contours[1], "polygon") # {}
    /\ Kept(uploaded_file.contours[2], "triangle") # {}

(***************************************************************************)
(* _extract_dimensions (CallSpec).                                         *)
(***************************************************************************)
DimNameSet == {DimNames[i] : i \in 1..Len(DimNames)}
\* C20: when the text holds labeled dimensions of a kind, the mapping
\* _extract_dimensions returns holds, for that kind, the number of the last
\* such match converted to millimeters.
C20_LastLabeledWins ==
    (pc = "done" /\ call.fn = "_extract_dimensions")
        => \A name \in DimNameSet :
               Let(DimFindAll(call.args[1], 1, name), LAMBDA matches :
                   matches # <<>>
                       => /\ ~IsError(call.returned)
                          /\ name \in DOMAIN call.returned
                          /\ call.returned[name]
                                 = convert_to_mm(float(matches[Len(matches)][2]),
                                                 matches[Len(matches)][3]))

(***************************************************************************)
(* _handle_special_cases (CallSpec).                                       *)
(***************************************************************************)
HandleDone == pc = "done" /\ call.fn = "_handle_special_cases"
CircleVocabulary(text) == Contains(text, "circle") \/ Contains(text, "round")
\* The mapping d with key k set to v unless d already holds k.
SetIfAbsent(d, k, v) == IF k \in DOMAIN d THEN d ELSE (k :> v) @@ d
\* What the 'A by B' rule leaves of the mapping d for the numbers A and B.
SizeRuleOutcome(text, d, A, B) ==
    IF CircleVocabulary(text)
    THEN SetIfAbsent(d, "diameter", IF A >= B THEN A ELSE B)
    ELSE SetIfAbsent(SetIfAbsent(d, "width", A), "height", B)

\* C21: when the text holds 'A by B' or 'A x B', circle/round vocabulary
\* makes diameter max(A, B) if diameter is not set; without that vocabulary
\* width becomes A and height becomes B, each only if not set.  No kind the
\* mapping already holds is overwritten.
C21_SizeRule ==
    HandleDone =>
        Let(SizeFindAll(call.args[1], 1), LAMBDA size_matches :
            size_matches # <<>> =>
                /\ call.returned
                       = SizeRuleOutcome(call.args[1], call.args[2],
                                         float(size_matches[1][1]), float(size_matches[1][2]))
                /\ \A k \in DOMAIN call.args[2] : call.returned[k] = call.args[2][k])
C21_Witness ==
    /\ HandleDone
    /\ call.args = <<"10 by 20 30 by 40", [width |-> Num(7)]>>
    /\ call.returned = [width |-> Num(7), height |-> Num(20)]

\* C22: the bare '<number> <unit>' rule fires only when the labeled patterns
\* and the 'A by B' rule left the mapping empty; it then takes the first
\* measurement, radius = value / 2 with circle vocabulary and width = height
\* = value without; with any dimension present it changes nothing.
C22_BareRule ==
    HandleDone =>
        Let(SizeFindAll(call.args[1], 1), LAMBDA size_matches :
            Let(SimpleFindAll(call.args[1], 1), LAMBDA simple_matches :
                IF size_matches # <<>>
                THEN call.returned
                         = SizeRuleOutcome(call.args[1], call.args[2],
                                           float(size_matches[1][1]),
                                           float(size_matches[1][2]))
                ELSE IF DOMAIN call.args[2] # {} \/ simple_matches = <<>>
                THEN call.returned = call.args[2]
                ELSE Let(convert_to_mm(float(simple_matches[1][1]), simple_matches[1][2]),
                         LAMBDA value :
                             IF CircleVocabulary(call.args[1])
                             THEN /\ DOMAIN call.returned = {"radius"}
                                  /\ 2 * call.returned.radius = value
                             ELSE call.returned = [width |-> value, height |-> value])))
C22_Witness ==
    /\ HandleDone
    /\ call.args = <<"2.5mm round", EmptyDict>>
    /\ call.returned = [radius |-> 125]

(***************************************************************************)
(* Units of the extracted dimensions (CallSpec).                           *)
(***************************************************************************)
ExtractDone == pc = "done" /\ call.fn = "_extract_dimensions"
\* The word that follows position j, after optional whitespace.
TokenAfter(s, j) ==
    Let(RunEnd(s, j, Spaces), LAMBDA k : SubSeq(s, k, RunEnd(s, k, Letters) - 1))
\* number times the factor of the unit token, the number itself without one.
InMillimeters(number, token) ==
    IF TableFactor(lower(token)) # 0
    THEN (float(number) * TableFactor(lower(token))) \div 10
    ELSE float(number)
SizePositions(s) == {i \in 1..Len(s) : SizeMatchAt(s, i).ok}
SimplePositions(s) == {i \in 1..Len(s) : SimpleMatchAt(s, i).ok}
First(S) == CHOOSE i \in S : \A j \in S : i <= j

\* C23: every value of the mapping _extract_dimensions returns is in
\* millimeters: a number followed by a recognized unit token (mm,
\* millimeter(s), cm, centimeter(s), m, meter(s), in, inch(es), ft, foot,
\* feet) contributes number times the token's factor, in the 'A by B' rule
\* and the bare-number rule as in the labeled rule.
C23_Millimeters ==
    (ExtractDone /\ ~IsError(call.returned) /\ ~CircleVocabulary(call.args[1]))
        => Let(call.args[1], LAMBDA s :
               IF SizePositions(s) # {}
               THEN Let(SizeMatchAt(s, First(SizePositions(s))), LAMBDA m :
                        /\ "height" \in DOMAIN call.returned
                        /\ call.returned.height
                               = InMillimeters(m.groups[2], TokenAfter(s, m.end)))
               ELSE SimplePositions(s) # {}
                        => Let(SimpleMatchAt(s, First(SimplePositions(s))), LAMBDA m :
                               /\ "width" \in DOMAIN call.returned
                               /\ call.returned.width
                                      = InMillimeters(m.groups[1],
                                            TokenAfter(s, m.end - Len(m.groups[2])))))

(***************************************************************************)
(* Confidence of the text record (CallSpec).                               *)
(***************************************************************************)
\* The unit u stands at position i as a token: no letter before or after.
UnitTokenAt(s, i, u) ==
    /\ At(s, i, u)
    /\ i = 1 \/ ~IsAlpha(Ch(s, i - 1))
    /\ i + Len(u) > Len(s) \/ ~IsAlpha(Ch(s, i + Len(u)))
UnitTokenAppears(s) ==
    \E u \in {"mm", "cm", "m", "in", "ft"} : \E i \in 1..Len(s) : UnitTokenAt(s, i, u)
ShapeKeywordAppears(s) ==
    \E w \in {"circle", "rectangle", "triangle", "hexagon"} : Contains(s, w)
Boost(condition) == IF condition THEN 5 ELSE 0

\* C24: the confidence of a text record is min(100, 85 + 5k), k counting the
\* conditions that hold: the record has more than 5 fields, a unit token
\* (mm, cm, m, in, ft) appears in the text, a shape keyword appears in the
\* text; each boost is applied exactly when its condition holds.
C24_ConfidenceBoosts ==
    (pc = "done" /\ call.fn = "process_text" /\ ~IsError(call.returned))
        => Let(normalize_text(call.args[1]), LAMBDA text :
               call.returned.confidence
                   = Min(Pct(100),
                         Pct(85 + Boost(Cardinality(DOMAIN call.returned
                                                        \ {"timestamp", "source"}) > 5)
                                + Boost(UnitTokenAppears(text))
                                + Boost(ShapeKeywordAppears(text)))))

(***************************************************************************)
(* The noise floor of _detect_shapes.                                      *)
(***************************************************************************)
\* Some detector that does not raise recognizes the contour c.
Recognized(c) ==
    \E n \in DetectorSet \ c.faults : Detect(n, c.approx, c, precision) # <<>>

\* C25: a contour is discarded exactly when its area is below
\* 100 x precision: one of area equal to or above it survives and is passed
\* to the detectors, so what they recognize on it is among the hypotheses.
C25_NoiseFloor ==
    (SketchDone /\ uploaded_file.decodable)
        => \A c \in ContoursOf(uploaded_file) :
               IF c.area < 100 * precision
               THEN \A n \in DetectorSet : Kept(c, n) = {}
               ELSE Recognized(c) => \E n \in DetectorSet : Kept(c, n) # {}

(***************************************************************************)
(* The fields of a record.                                                 *)
(***************************************************************************)
GeometryKinds == {"radius", "diameter", "width", "height", "side_length"}
\* The geometry of a type in the record's data model.
GeometryOf(type) ==
    IF type = "circle" THEN {"radius", "diameter"}
    ELSE IF type = "hexagon" THEN {"side_length", "width", "height"}
    ELSE {"width", "height"}
\* The other fields: the common header, the provenance, what a hypothesis
\* carries of its contour, and the enrichment.
HeaderFields ==
    {"type", "center", "confidence", "vertices", "area", "perimeter", "timestamp", "source",
     "contour", "approx_contour"} \cup EnrichmentFields

\* C26: the geometry fields of a record are exactly those of its type:
\* radius and diameter for a circle; width and height for a rectangle, a
\* triangle and a polygon; side_length, width and height for a hexagon; and
\* the record holds no other geometry or stray field, in both pipelines.
C26_ExactGeometry ==
    (pc = "done" /\ input_method \in {"text", "sketch"} /\ ~IsError(result)
                 /\ result.type \in ShapeTypes)
        => /\ DOMAIN result \cap GeometryKinds = GeometryOf(result.type)
           /\ DOMAIN result \subseteq GeometryKinds \cup HeaderFields

\* C27: polygon is the catch-all of the detectors: every surviving contour
\* with 7 or more approximated vertices, or recognized as none of circle,
\* rectangle, triangle, hexagon (one with 5 vertices, say), yields a polygon
\* hypothesis, so a surviving contour never leaves the list empty.
C27_PolygonCatchAll ==
    (SketchDone /\ uploaded_file.decodable)
        => \A c \in ContoursOf(uploaded_file) :
               (/\ c.area > 100 * precision
                /\ "polygon" \notin c.faults
                /\ \/ c.approx >= 7
                   \/ \A n \in DetectorSet \ {"polygon"} : Kept(c, n) = {})
                   => Kept(c, "polygon") # {}

(***************************************************************************)
(* _construct_circle_data (CallSpec).                                      *)
(***************************************************************************)
\* C28: every circle record the text pipeline builds has diameter =
\* 2 * radius, whichever of radius and diameter were extracted: neither,
\* radius only, diameter only, or both, when the diameter decides.
C28_DiameterTwiceRadius ==
    (pc = "done" /\ call.fn = "_construct_circle_data")
        => /\ call.returned.diameter = 2 * call.returned.radius
           /\ "diameter" \in DOMAIN call.args[1]
                  => call.returned.diameter = call.args[1].diameter
           /\ ("radius" \in DOMAIN call.args[1] /\ "diameter" \notin DOMAIN call.args[1])
                  => call.returned.radius = call.args[1].radius
C28_Witness ==
    /\ pc = "done"
    /\ call.fn = "_construct_circle_data"
    /\ call.args[1] = [radius |-> Num(7), diameter |-> Num(10)]
    /\ call.returned.radius = Num(5)
    /\ call.returned.diameter = Num(10)

(***************************************************************************)
(* The session state of the app (AppSpec).                                 *)
(***************************************************************************)
FailedStatuses == {"Text processing failed", "Sketch processing failed"}
ResultKeys == {"dxf_generated", "dxf_file_path", "preview_image", "processing_metrics"}
\* The request that led to this state failed.
RequestFailed(ss) ==
    "processing_status" \in DOMAIN ss /\ ss["processing_status"] \in FailedStatuses

\* C29: a failed request changes only processing_status: dxf_generated,
\* dxf_file_path, preview_image and processing_metrics keep what the last
\* successful request left; and dxf_generated, once true, stays true
\* through every sequence of requests.
C29_FailureFrame ==
    [][/\ RequestFailed(session_state')
           => \A k \in ResultKeys :
                  /\ (k \in DOMAIN session_state') = (k \in DOMAIN session_state)
                  /\ k \in DOMAIN session_state => session_state'[k] = session_state[k]
       /\ session_state["dxf_generated"] => session_state'["dxf_generated"]]_vars
C29_Witness ==
    /\ input_method = "app"
    /\ RequestFailed(session_state)
    /\ session_state["dxf_generated"]
    /\ "dxf_file_path" \in DOMAIN session_state
    /\ "preview_image" \in DOMAIN session_state
    /\ session_state["processing_metrics"].shape_type = "circle"

(***************************************************************************)
(* The output path of the generator (DxfSpec).                             *)
(***************************************************************************)
\* Thread t has its path; thread t has saved.
Stamped(t) == threads[t].kind = "generate" /\ threads[t].pc \in {"save", "returned"}
Saved(t) == threads[t].kind = "generate" /\ threads[t].pc = "returned"
SameTypeAndSecond(t, u) ==
    /\ threads[t].shape_data.type = threads[u].shape_data.type
    /\ threads[t].second = threads[u].second

\* C30: the output path depends only on the record's type and the second
\* of the save: two generations of the same type in the same second get the
\* same path and the later save replaces the earlier file, and generations
\* that differ in type or in second get distinct paths.
C30_PathByTypeAndSecond ==
    /\ \A t \in DOMAIN threads : \A u \in DOMAIN threads :
           (Stamped(t) /\ Stamped(u))
               => (threads[t].dxf_file_path = threads[u].dxf_file_path
                       <=> SameTypeAndSecond(t, u))
    /\ \A t \in DOMAIN threads :
           (/\ Saved(t)
            /\ \A u \in DOMAIN threads :
                   (Saved(u) /\ SameTypeAndSecond(t, u))
                       => threads[u].order <= threads[t].order)
               => /\ threads[t].dxf_file_path \in DOMAIN files
                  /\ files[threads[t].dxf_file_path] = threads[t].doc
C30_Witness ==
    \E t \in DOMAIN threads : \E u \in DOMAIN threads : \E v \in DOMAIN threads :
        /\ Saved(t) /\ Saved(u) /\ Saved(v)
        /\ SameTypeAndSecond(t, u)
        /\ threads[t].doc # threads[u].doc
        /\ threads[t].order < threads[u].order
        /\ files[threads[t].dxf_file_path] = threads[u].doc
        /\ threads[v].shape_data.type = threads[t].shape_data.type
        /\ threads[v].second # threads[t].second
        /\ Cardinality(DOMAIN files) = 2

============================================================================
